---- MODULE Spec2Model ----
(***************************************************************************)
(* Model of the webhook receiver in src/main.py (FastAPI application):     *)
(* GET /health, POST /webhook (IP allow-list, ElevenLabs-Signature header, *)
(* replay window, HMAC-SHA256, JSON dispatch, outbound register-call) and  *)
(* POST /sms.                                                              *)
(*                                                                         *)
(* Strings are TLA+ strings, read one character at a time with SubSeq.     *)
(* A request body is a byte string: every character stands for the ASCII   *)
(* byte of that character, except InvalidByte, which stands for the byte   *)
(* 0xFF (a byte that no UTF-8 text contains).                              *)
(***************************************************************************)
EXTENDS Integers, Sequences, FiniteSets, TLC

VARIABLES request, clock, environ, response, log, outbound, pc

vars == <<request, clock, environ, response, log, outbound, pc>>

(***************************************************************************)
(* Optional values (Python None): the empty tuple is None, <<v>> is v.     *)
(***************************************************************************)
None == <<>>

Some(v) == <<v>>

(***************************************************************************)
(* Python string primitives used by the handler.                           *)
(***************************************************************************)
\* s[i-1:i]: the i-th character, "" outside the string
CharAt(s, i) == IF i >= 1 /\ i <= Len(s) THEN SubSeq(s, i, i) ELSE ""

\* s[n:]
DropPrefix(s, n) == IF Len(s) <= n THEN "" ELSE SubSeq(s, n + 1, Len(s))

\* index of the first sep in s at or after position i, 0 when there is none
FindFrom(s, sep, i) ==
    LET hits == {k \in i..Len(s) : SubSeq(s, k, k) = sep}
    IN  IF hits = {} THEN 0 ELSE CHOOSE k \in hits : \A j \in hits : k <= j

\* str.split(","): the fields between the commas, empty fields kept
RECURSIVE SplitComma(_)
SplitComma(s) ==
    LET k == FindFrom(s, ",", 1)
    IN  IF k = 0 THEN <<s>>
        ELSE <<SubSeq(s, 1, k - 1)>> \o SplitComma(DropPrefix(s, k))

Digits == "0123456789"

IsDigit(c) == FindFrom(Digits, c, 1) # 0

DigitValue(c) == FindFrom(Digits, c, 1) - 1

\* str.strip() for the one whitespace character of the model's alphabet
RECURSIVE StripSpaces(_)
StripSpaces(s) ==
    IF s = "" THEN s
    ELSE IF CharAt(s, 1) = " " THEN StripSpaces(DropPrefix(s, 1))
    ELSE IF CharAt(s, Len(s)) = " " THEN StripSpaces(SubSeq(s, 1, Len(s) - 1))
    ELSE s

\* the digits of an int() literal: digits, single underscores between them
RECURSIVE DigitRun(_, _, _)
DigitRun(s, i, acc) ==
    IF i > Len(s) THEN [ok |-> TRUE, value |-> acc]
    ELSE LET c == CharAt(s, i)
         IN  IF IsDigit(c) THEN DigitRun(s, i + 1, 10 * acc + DigitValue(c))
             ELSE IF c = "_" /\ i > 1 /\ i < Len(s)
                     /\ IsDigit(CharAt(s, i - 1)) /\ IsDigit(CharAt(s, i + 1))
                  THEN DigitRun(s, i + 1, acc)
             ELSE [ok |-> FALSE, value |-> 0]

\* int(s): surrounding whitespace, one optional sign, then the digits;
\* ok = FALSE is ValueError.  Python integers are unbounded.
PyInt(s) ==
    LET t == StripSpaces(s)
        signed == t # "" /\ CharAt(t, 1) \in {"+", "-"}
        body == IF signed THEN DropPrefix(t, 1) ELSE t
        run == IF body = "" THEN [ok |-> FALSE, value |-> 0] ELSE DigitRun(body, 1, 0)
    IN  IF ~run.ok THEN run
        ELSE IF signed /\ CharAt(t, 1) = "-" THEN [ok |-> TRUE, value |-> 0 - run.value]
        ELSE run

\* f"{timestamp}": the canonical decimal text of an integer
FormatInt(n) == ToString(n)

(***************************************************************************)
(* Bytes and text.  payload.decode('utf-8') and str.encode('utf-8') are    *)
(* the identity on ASCII; decoding raises UnicodeDecodeError on 0xFF.      *)
(***************************************************************************)
InvalidByte == "^"

Utf8Decodes(bytes) == FindFrom(bytes, InvalidByte, 1) = 0

\* the ASCII characters 0x20 .. 0x7E in code order; 0x5E (the character that
\* stands for InvalidByte) and 0x60 are left out
Printable ==
    " !\"#$%&'()*+,-./0123456789:;<=>?@ABCDEFGHIJKLMNOPQRSTUVWXYZ[\\]_abcdefghijklmnopqrstuvwxyz{|}~"

HexDigits == "0123456789abcdef"

ByteCode(c) ==
    IF c = InvalidByte THEN 255
    ELSE LET k == FindFrom(Printable, c, 1)
         IN  IF k <= 62 THEN 31 + k ELSE IF k = 63 THEN 95 ELSE 33 + k

HexByte ==
    [c \in {CharAt(Printable, i) : i \in 1..Len(Printable)} \cup {InvalidByte} |->
        CharAt(HexDigits, (ByteCode(c) \div 16) + 1) \o CharAt(HexDigits, (ByteCode(c) % 16) + 1)]

\* bytes.hex(): two hex digits per byte (computed by halving the string)
RECURSIVE HexEncode(_)
HexEncode(s) ==
    IF s = "" THEN ""
    ELSE IF Len(s) = 1 THEN HexByte[s]
    ELSE HexEncode(SubSeq(s, 1, Len(s) \div 2)) \o HexEncode(DropPrefix(s, Len(s) \div 2))

(***************************************************************************)
(* hmac.new(key, msg, sha256).hexdigest().  HMAC-SHA256 is modelled as an  *)
(* ideal keyed function: a lowercase hex string that determines the key    *)
(* and the message (no collisions).  It is the hex encoding of the key, a  *)
(* zero byte (no environment variable contains one) and the message.       *)
(***************************************************************************)
HmacSha256Hex(key, msg) == HexEncode(key) \o "00" \o HexEncode(msg)

(***************************************************************************)
(* json.loads, for JSON texts without whitespace, string escapes,          *)
(* fractions and exponents (the request bodies of this model have none).   *)
(* A parsed Python value is represented by its JSON text: "{...}" a dict,  *)
(* "[...]" a list, a quoted text a str, digits an int, true/false a bool,  *)
(* null is None.  An End operator gives the position after the value that  *)
(* starts at i, or 0 when no value starts there.                           *)
(***************************************************************************)
StartsWithAt(s, i, w) == i + Len(w) - 1 <= Len(s) /\ SubSeq(s, i, i + Len(w) - 1) = w

JsonStringEnd(s, i) ==
    LET k == FindFrom(s, "\"", i + 1)
    IN  IF CharAt(s, i) # "\"" \/ k = 0 THEN 0
        ELSE IF FindFrom(SubSeq(s, i + 1, k - 1), "\\", 1) # 0 THEN 0
        ELSE k + 1

RECURSIVE DigitsEnd(_, _)
DigitsEnd(s, i) == IF IsDigit(CharAt(s, i)) THEN DigitsEnd(s, i + 1) ELSE i

JsonNumberEnd(s, i) ==
    LET j == IF CharAt(s, i) = "-" THEN i + 1 ELSE i
    IN  IF ~IsDigit(CharAt(s, j)) THEN 0
        ELSE IF CharAt(s, j) = "0" THEN j + 1
        ELSE DigitsEnd(s, j)

RECURSIVE JsonValueEnd(_, _)
RECURSIVE JsonMembersEnd(_, _)
RECURSIVE JsonElementsEnd(_, _)
JsonValueEnd(s, i) ==
    LET c == CharAt(s, i)
    IN  IF c = "\"" THEN JsonStringEnd(s, i)
        ELSE IF c = "{" THEN (IF CharAt(s, i + 1) = "}" THEN i + 2 ELSE JsonMembersEnd(s, i + 1))
        ELSE IF c = "[" THEN (IF CharAt(s, i + 1) = "]" THEN i + 2 ELSE JsonElementsEnd(s, i + 1))
        ELSE IF c = "-" \/ IsDigit(c) THEN JsonNumberEnd(s, i)
        ELSE IF StartsWithAt(s, i, "true") \/ StartsWithAt(s, i, "null") THEN i + 4
        ELSE IF StartsWithAt(s, i, "false") THEN i + 5
        ELSE 0

JsonMembersEnd(s, i) ==
    LET k == JsonStringEnd(s, i)
        v == IF k = 0 \/ CharAt(s, k) # ":" THEN 0 ELSE JsonValueEnd(s, k + 1)
    IN  IF v = 0 THEN 0
        ELSE IF CharAt(s, v) = "," THEN JsonMembersEnd(s, v + 1)
        ELSE IF CharAt(s, v) = "}" THEN v + 1
        ELSE 0

JsonElementsEnd(s, i) ==
    LET v == JsonValueEnd(s, i)
    IN  IF v = 0 THEN 0
        ELSE IF CharAt(s, v) = "," THEN JsonElementsEnd(s, v + 1)
        ELSE IF CharAt(s, v) = "]" THEN v + 1
        ELSE 0

\* json.loads(text): ok = FALSE is JSONDecodeError
JsonLoads(text) == [ok |-> text # "" /\ JsonValueEnd(text, 1) = Len(text) + 1, value |-> text]

PyNone == "null"

PyKind(v) ==
    LET c == CharAt(v, 1)
    IN  IF c = "{" THEN "dict"
        ELSE IF c = "[" THEN "list"
        ELSE IF c = "\"" THEN "str"
        ELSE IF c \in {"t", "f"} THEN "bool"
        ELSE IF c = "n" THEN "NoneType"
        ELSE "int"

\* bool(v): what "not v" negates
PyTruthy(v) ==
    LET kind == PyKind(v)
    IN  IF kind = "dict" THEN v # "{}"
        ELSE IF kind = "list" THEN v # "[]"
        ELSE IF kind = "str" THEN v # "\"\""
        ELSE IF kind = "bool" THEN v = "true"
        ELSE IF kind = "NoneType" THEN FALSE
        ELSE PyInt(v).value # 0

\* the value of the last member of dict text s named key, from the member at i on
RECURSIVE MemberLookup(_, _, _, _)
MemberLookup(s, i, key, found) ==
    LET k == JsonStringEnd(s, i)
        v == JsonValueEnd(s, k + 1)
        hit == IF SubSeq(s, i + 1, k - 2) = key THEN Some(SubSeq(s, k + 1, v - 1)) ELSE found
    IN  IF CharAt(s, v) = "," THEN MemberLookup(s, v + 1, key, hit) ELSE hit

\* key in d
DictHas(d, key) == d # "{}" /\ MemberLookup(d, 2, key, None) # None

\* d.get(key, default)
DictGet(d, key, default) ==
    IF DictHas(d, key) THEN MemberLookup(d, 2, key, None)[1] ELSE default

\* str.lower() and the "in" operator on strings
UpperCase == "ABCDEFGHIJKLMNOPQRSTUVWXYZ"

LowerCase == "abcdefghijklmnopqrstuvwxyz"

RECURSIVE Lower(_)
Lower(s) ==
    IF s = "" THEN ""
    ELSE IF Len(s) = 1
    THEN LET k == FindFrom(UpperCase, s, 1) IN IF k = 0 THEN s ELSE CharAt(LowerCase, k)
    ELSE Lower(SubSeq(s, 1, Len(s) \div 2)) \o Lower(DropPrefix(s, Len(s) \div 2))

Contains(s, w) == \E i \in 1..Len(s) : StartsWithAt(s, i, w)

\* the text of a str value (its JSON text without the quotes)
StrText(v) == SubSeq(v, 2, Len(v) - 1)

(***************************************************************************)
(* The application.                                                        *)
(***************************************************************************)
ALLOWED_IPS ==
    {"34.67.146.145", "34.59.11.47", "35.204.38.71", "34.147.113.54",
     "35.185.187.110", "35.247.157.189"}

\* 30 * 60, the age in seconds beyond which a timestamp is rejected
ToleranceSeconds == 1800

RegisterCallUrl == "https://api.elevenlabs.io/v1/convai/twilio/register-call"

\* what a handler leaves behind: the HTTP response, the lines it logged and
\* the outbound HTTP requests it made
Result(resp, lines, calls) == [response |-> resp, log |-> lines, outbound |-> calls]

\* raise HTTPException(status_code, detail): the body is {"detail": detail}
HTTPException(status_code, detail) == [status |-> status_code, key |-> "detail", value |-> detail]

\* return {"status": "received"}: HTTP 200
Received == [status |-> 200, key |-> "status", value |-> "received"]

\* an exception no handler catches: the framework answers HTTP 500
InternalServerError == [status |-> 500, key |-> "text", value |-> "Internal Server Error"]

\* IpAllowed with a request without client address let through
IpAllowedNoClientPasses(client_ip) == client_ip = None \/ client_ip[1] \in ALLOWED_IPS

\* client_ip in ALLOWED_IPS; client_ip is None when the request has no client
IpAllowed(client_ip) == client_ip # None /\ client_ip[1] \in ALLOWED_IPS

\* parts[0][2:]
TimestampStr(parts) == DropPrefix(parts[1], 2)

\* int(time.time()) - 30 * 60
Tolerance(now) == now - ToleranceSeconds

\* TooOld with the edge of the window counted as too old
TooOldAtEdge(timestamp, tolerance) == timestamp <= tolerance

\* timestamp < tolerance
TooOld(timestamp, tolerance) == timestamp < tolerance

\* not secret, for secret = os.getenv(...): unset or empty
SecretMissing(secret) == secret = None \/ secret[1] = ""

\* ExpectedDigest over the payload alone, the timestamp left unsigned
ExpectedDigestOfPayload(secret, timestamp, payload_text) ==
    "v0=" \o HmacSha256Hex(secret, payload_text)

\* os.getenv(name, default) for the optional value of the variable
GetEnv(value, default) == IF value = None THEN default ELSE value[1]

\* 'v0=' + hmac.new(secret, f"{timestamp}.{payload}", sha256).hexdigest()
ExpectedDigest(secret, timestamp, payload_text) ==
    "v0=" \o HmacSha256Hex(secret, FormatInt(timestamp) \o "." \o payload_text)

\* hmac_signature != expected_digest
DigestMismatch(hmac_signature, expected_digest) == hmac_signature # expected_digest

\* RegisterCall without the except clause: the exception reaches the framework
RegisterCallUncaught(agent_id, api_key, post, lines) ==
    LET call == [url |-> RegisterCallUrl, phone_number |-> "+1234567890",
                 agent_id |-> agent_id, xi_api_key |-> GetEnv(api_key, "")]
    IN  IF post.raised
        THEN Result(InternalServerError, lines, <<call>>)
        ELSE Result(Received,
                 lines \o <<"INFO:Simulated register-call: " \o ToString(post.status_code)>>,
                 <<call>>)

\* the try/except around requests.post and the return that follows it:
\* post is what the HTTP client does, a response or a raised exception
RegisterCall(agent_id, api_key, post, lines) ==
    LET call == [url |-> RegisterCallUrl, phone_number |-> "+1234567890",
                 agent_id |-> agent_id, xi_api_key |-> GetEnv(api_key, "")]
    IN  IF post.raised
        THEN Result(Received, lines \o <<"ERROR:Register-call error">>, <<call>>)
        ELSE Result(Received,
                 lines \o <<"INFO:Simulated register-call: " \o ToString(post.status_code)>>,
                 <<call>>)

\* the branch for event_type == "call_initiation_failure"
CallInitiationFailure(data, api_key, post, lines) ==
    LET l1 == lines \o <<"INFO:Processing call initiation failure event">>
        event_data == DictGet(data, "data", "{}")
    IN  IF ~PyTruthy(event_data)
        THEN Result(Received, l1 \o <<"WARNING:Missing data in call_initiation_failure">>, <<>>)
        ELSE IF PyKind(event_data) # "dict"
        THEN Result(InternalServerError, l1, <<>>)
        ELSE RegisterCall(DictGet(event_data, "agent_id", PyNone), api_key, post,
                 l1 \o <<"INFO:Agent ID", "INFO:Conversation ID", "INFO:Failure Reason",
                         "INFO:Metadata", "INFO:Event Timestamp">>)

\* the lines logged after the fields of a transcription are extracted
TranscriptionLines(data, summary) ==
    (IF Contains(summary, "end_call") THEN <<"INFO:Detected end_call intent">> ELSE <<>>)
    \o <<"INFO:Simulated CRM update">>
    \o (IF DictHas(data, "has_audio") THEN <<"INFO:Has audio">> ELSE <<>>)
    \o (IF DictHas(data, "has_user_audio") THEN <<"INFO:Has user audio">> ELSE <<>>)
    \o (IF DictHas(data, "has_response_audio") THEN <<"INFO:Has response audio">> ELSE <<>>)
    \o (IF Contains(summary, "dj") \/ Contains(summary, "wedding")
        THEN <<"INFO:DJ Event Planner">> ELSE <<>>)

\* the branch for event_type == "post_call_transcription"
PostCallTranscription(data, lines) ==
    LET l1 == lines \o <<"INFO:Processing post-call transcription event">>
        event_data == DictGet(data, "data", "{}")
        metadata == DictGet(event_data, "metadata", "{}")
        analysis == DictGet(event_data, "analysis", "{}")
        transcript_summary == DictGet(analysis, "transcript_summary", "\"\"")
        l2 == l1 \o <<"INFO:User ID", "INFO:Transcript Summary", "INFO:Call Successful",
                      "INFO:Full Transcript">>
    IN  IF ~PyTruthy(event_data)
        THEN Result(Received, l1 \o <<"WARNING:Missing data in post_call_transcription">>, <<>>)
        ELSE IF PyKind(event_data) # "dict" \/ PyKind(metadata) # "dict"
                \/ PyKind(analysis) # "dict"
        THEN Result(InternalServerError, l1, <<>>)
        ELSE IF PyKind(transcript_summary) # "str"
        THEN Result(InternalServerError, l2, <<>>)
        ELSE Result(Received,
                 l2 \o TranscriptionLines(data, Lower(StrText(transcript_summary))), <<>>)

\* Dispatch that registers a call for a transcription event as well
DispatchRegistersAll(data, event_type, api_key, post, lines) ==
    IF event_type \in {"\"call_initiation_failure\"", "\"post_call_transcription\""}
    THEN CallInitiationFailure(data, api_key, post, lines)
    ELSE Result(Received, lines \o <<"INFO:Unhandled event type">>, <<>>)

\* lines 105-179: the branch on the event type
Dispatch(data, event_type, api_key, post, lines) ==
    IF event_type = "\"call_initiation_failure\""
    THEN CallInitiationFailure(data, api_key, post, lines)
    ELSE IF event_type = "\"post_call_transcription\""
    THEN PostCallTranscription(data, lines)
    ELSE Result(Received, lines \o <<"INFO:Unhandled event type">>, <<>>)

\* lines 91-103: request.json(), data.get("type")
ParsePayload(payload, api_key, post, lines) ==
    LET parsed == JsonLoads(payload)
        data == parsed.value
        event_type == DictGet(data, "type", PyNone)
    IN  IF ~parsed.ok
        THEN Result(HTTPException(400, "Invalid JSON"),
                 lines \o <<"ERROR:Invalid JSON payload">>, <<>>)
        ELSE IF PyKind(data) # "dict"
        THEN Result(InternalServerError, lines, <<>>)
        ELSE IF ~PyTruthy(event_type)
        THEN Result(HTTPException(400, "Missing event type"),
                 lines \o <<"WARNING:Missing event type in payload">>, <<>>)
        ELSE Dispatch(data, event_type, api_key, post, lines \o <<"INFO:Webhook payload">>)

\* lines 69-89: the secret, payload.decode('utf-8'), the digest comparison
ValidateDigest(payload, hmac_signature, timestamp, env, post, lines) ==
    LET secret == env.ELEVENLABS_WEBHOOK_SECRET
    IN  IF SecretMissing(secret)
        THEN Result(HTTPException(500, "Webhook secret not configured"),
                 lines \o <<"ERROR:ELEVENLABS_WEBHOOK_SECRET not set">>, <<>>)
        ELSE IF ~Utf8Decodes(payload)
        THEN Result(InternalServerError, lines, <<>>)
        ELSE IF DigestMismatch(hmac_signature, ExpectedDigest(secret[1], timestamp, payload))
        THEN Result(HTTPException(400, "Invalid signature"),
                 lines \o <<"INFO:Expected digest", "WARNING:Signature mismatch">>, <<>>)
        ELSE ParsePayload(payload, env.XI_API_KEY, post,
                 lines \o <<"INFO:Expected digest", "INFO:Signature validation passed">>)

\* lines 47-67: the header's two fields, the timestamp and its age
ValidateTimestamp(payload, signature_header, now, env, post, lines) ==
    LET parts == SplitComma(signature_header)
        timestamp_str == TimestampStr(parts)
        hmac_signature == parts[2]
        tolerance == Tolerance(now)
        timestamp == PyInt(timestamp_str)
        l1 == lines \o <<"INFO:Parsed timestamp">>
    IN  IF Len(parts) # 2
        THEN Result(HTTPException(400, "Invalid signature format"),
                 lines \o <<"WARNING:Invalid signature format">>, <<>>)
        ELSE IF ~timestamp.ok
        THEN Result(HTTPException(400, "Invalid timestamp"),
                 l1 \o <<"WARNING:Invalid timestamp">>, <<>>)
        ELSE IF TooOld(timestamp.value, tolerance)
        THEN Result(HTTPException(400, "Timestamp too old"),
                 l1 \o <<"WARNING:Timestamp too old">>, <<>>)
        ELSE ValidateDigest(payload, hmac_signature, timestamp.value, env, post, l1)

\* POST /webhook, lines 29-179
WebhookHandler(req, now, env, post) ==
    LET client_ip == req.client
        l0 == <<"INFO:Received webhook request">>
        l1 == l0 \o <<"INFO:Webhook request from allowed IP">>
    IN  IF ~IpAllowed(client_ip)
        THEN Result(HTTPException(403, "Unauthorized IP"),
                 l0 \o <<"WARNING:Blocked request from unauthorized IP">>, <<>>)
        ELSE IF req.header = None
        THEN Result(HTTPException(400, "Missing ElevenLabs-Signature header"),
                 l1 \o <<"WARNING:Missing ElevenLabs-Signature header">>, <<>>)
        ELSE ValidateTimestamp(req.body, req.header[1], now, env, post, l1)

\* GET /health
HealthHandler == Result([status |-> 200, key |-> "status", value |-> "ok"], <<>>, <<>>)

\* POST /sms
SmsHandler == Result([status |-> 200, key |-> "text", value |-> "OK"], <<"INFO:SMS received">>, <<>>)

(***************************************************************************)
(* The requests and the environment the model draws from.                  *)
(***************************************************************************)
\* timestamps are drawn from Slack seconds either side of the replay edge
Slack == 1

\* a received body differs from the signed one within its first MaxMutPos bytes
MaxMutPos == 1

\* the six allow-listed addresses, two others (one a prefix of an allow-listed
\* address) and a request without client address
Clients == {Some(ip) : ip \in ALLOWED_IPS \cup {"203.0.113.9", "34.67.146.14"}} \cup {None}

ClockValues == {1700000000, 1700000123}

Secrets == {None, Some(""), Some("s3")}

SignerKeys == {"s3", "k9"}

Environs ==
    [ELEVENLABS_WEBHOOK_SECRET : Secrets, XI_API_KEY : {None}]
    \cup {[ELEVENLABS_WEBHOOK_SECRET |-> Some("s3"), XI_API_KEY |-> Some("xi-key")]}

\* what requests.post does: a response with a status code, or an exception
PostOutcomes ==
    {[raised |-> FALSE, status_code |-> 200], [raised |-> FALSE, status_code |-> 500],
     [raised |-> TRUE, status_code |-> 0]}

SignedBodies ==
    {"{\"type\":\"call_initiation_failure\",\"data\":{\"agent_id\":\"a1\"}}",
     "{\"type\":\"call_initiation_failure\"}",
     "{\"type\":\"call_initiation_failure\",\"data\":{}}",
     "{\"type\":\"call_initiation_failure\",\"data\":\"x\"}",
     "{\"type\":\"post_call_transcription\",\"data\":{\"analysis\":{\"transcript_summary\":\"DJ End_Call\"},\"metadata\":{\"user_id\":\"u1\"}},\"has_audio\":true}",
     "{\"type\":\"post_call_transcription\",\"data\":{\"analysis\":{\"transcript_summary\":null}}}",
     "{\"type\":\"post_call_transcription\",\"data\":[1]}",
     "{\"type\":\"post_call_transcription\"}",
     "{\"type\":\"ping\",\"data\":{\"agent_id\":\"a1\"}}",
     "{\"type\":\"\"}",
     "{\"data\":{\"agent_id\":\"a1\"}}",
     "{}",
     "[1,2]",
     "\"call_initiation_failure\"",
     "42",
     "null",
     "{\"type\":",
     "hello",
     "",
     "{\"type\":\"^\"}"}

MutBytes == {"x", InvalidByte}

\* body with the byte at position p replaced by c
WithByte(body, p, c) == SubSeq(body, 1, p - 1) \o c \o DropPrefix(body, p)

\* the bodies that differ from body in exactly one of its first MaxMutPos bytes
Mutations(body) ==
    {WithByte(body, p, c) : p \in 1..(IF Len(body) < MaxMutPos THEN Len(body) ELSE MaxMutPos),
                            c \in MutBytes} \ {body}

Timestamps(now) ==
    {now - ToleranceSeconds + d : d \in (0 - Slack)..Slack} \cup {now}

\* the header a sender holding key builds for timestamp T and body
SignedHeader(T, key, body) ==
    "t=" \o FormatInt(T) \o ",v0=" \o HmacSha256Hex(key, FormatInt(T) \o "." \o body)

\* that header and its malformed variants: another first field, a digest
\* without its prefix, no comma, a third field, no header at all
Headers(T, key, body) ==
    LET t == FormatInt(T)
        digest == HmacSha256Hex(key, t \o "." \o body)
        first == {"t=" \o t, "x=" \o t, "t=+" \o t, "t=abc", "t="}
        second == {"v0=" \o digest, digest}
    IN  {Some(f \o "," \o g) : f \in first, g \in second}
        \cup {Some("t=" \o t \o "v0=" \o digest),
              Some("t=" \o t \o ",v0=" \o digest \o ",v1=0"),
              None}

\* the bodies sent with every header variant
BasicBodies ==
    {"{\"type\":\"call_initiation_failure\",\"data\":{\"agent_id\":\"a1\"}}",
     "{}", "hello", "{\"type\":\"^\"}"}

WebhookRequest(c, h, b) == [route |-> "POST /webhook", client |-> c, header |-> h, body |-> b]

\* every header variant, from every client, with the bodies of BasicBodies
HeaderVariants(now) ==
    UNION {UNION {UNION {
        {WebhookRequest(c, h, body) : c \in Clients, h \in Headers(T, key, body)}
        : key \in SignerKeys} : T \in Timestamps(now)} : body \in BasicBodies}

\* a well-formed header over every body of SignedBodies, received unchanged
\* or with one byte changed
BodyVariants(now) ==
    UNION {UNION {UNION {
        {WebhookRequest(c, Some(SignedHeader(T, key, signed)), b) :
            c \in {Some("34.67.146.145"), Some("203.0.113.9")},
            b \in {signed} \cup Mutations(signed)}
        : key \in SignerKeys} : T \in Timestamps(now)} : signed \in SignedBodies}

WebhookRequests(now) == HeaderVariants(now) \cup BodyVariants(now)

OtherRequests ==
    {[route |-> "GET /health", client |-> c, header |-> None, body |-> ""] : c \in Clients}
    \cup {[route |-> "POST /sms", client |-> c, header |-> None, body |-> b] :
             c \in Clients, b \in {"", "From=%2B15550100&Body=hi"}}

(***************************************************************************)
(* One request: it arrives (Init), its handler runs to completion.         *)
(***************************************************************************)
Init ==
    /\ clock \in ClockValues
    /\ environ \in Environs
    /\ request \in WebhookRequests(clock) \cup OtherRequests
    /\ response = None
    /\ log = <<>>
    /\ outbound = <<>>
    /\ pc = "pending"

Respond(result) ==
    /\ response' = Some(result.response)
    /\ log' = result.log
    /\ outbound' = result.outbound
    /\ pc' = "done"
    /\ UNCHANGED <<request, clock, environ>>

Webhook ==
    /\ pc = "pending"
    /\ request.route = "POST /webhook"
    /\ \E post \in PostOutcomes : Respond(WebhookHandler(request, clock, environ, post))

Health ==
    /\ pc = "pending"
    /\ request.route = "GET /health"
    /\ Respond(HealthHandler)

Sms ==
    /\ pc = "pending"
    /\ request.route = "POST /sms"
    /\ Respond(SmsHandler)

Next == Webhook \/ Health \/ Sms

Spec == Init /\ [][Next]_vars

(***************************************************************************)
(* Vocabulary of the properties: the finished request, its outcome, and    *)
(* the nine steps of the validation policy stated on the request itself.   *)
(***************************************************************************)
Done == pc = "done"

WebhookDone == Done /\ request.route = "POST /webhook"

Lines == {log[i] : i \in DOMAIN log}

Rejected(status_code, detail) == response = Some(HTTPException(status_code, detail))

\* the validator accepted the request: line 103 was reached
Accepted == WebhookDone /\ "INFO:Webhook payload" \in Lines

Answered200 == response = Some(Received)

StepIp == request.client # None /\ request.client[1] \in ALLOWED_IPS

StepHeader == request.header # None

Fields == SplitComma(request.header[1])

StepTwoFields == Len(Fields) = 2

\* the literal prefix t= followed by one or more decimal digits
IsTDigits(f) ==
    /\ Len(f) >= 3
    /\ SubSeq(f, 1, 2) = "t="
    /\ \A i \in 3..Len(f) : CharAt(f, i) \in {"0", "1", "2", "3", "4", "5", "6", "7", "8", "9"}

StepTimestamp == IsTDigits(Fields[1])

HeaderTime == PyInt(DropPrefix(Fields[1], 2)).value

StepFresh == HeaderTime >= clock - 1800

ConfiguredSecret == environ.ELEVENLABS_WEBHOOK_SECRET

StepSecret == ConfiguredSecret # None /\ ConfiguredSecret[1] # ""

StepDigest ==
    Fields[2] = "v0=" \o HmacSha256Hex(ConfiguredSecret[1],
                            FormatInt(HeaderTime) \o "." \o request.body)

StepJson == Utf8Decodes(request.body) /\ JsonLoads(request.body).ok

StepType ==
    /\ PyKind(request.body) = "dict"
    /\ PyTruthy(DictGet(request.body, "type", PyNone))

\* the header is t=<T>,v0=<HMAC(key, "T.body")> for a T of the last 1800 seconds
SignedFresh(key, body) ==
    /\ request.header # None
    /\ \E T \in Timestamps(clock) :
          /\ T >= clock - 1800 /\ T <= clock
          /\ StartsWithAt(request.header[1], 1, "t=" \o FormatInt(T) \o ",v0=")
          /\ request.header[1] = SignedHeader(T, key, body)

OneByteApart(a, b) ==
    /\ Len(a) = Len(b)
    /\ Cardinality({i \in 1..Len(a) : CharAt(a, i) # CharAt(b, i)}) = 1

EarlyRejections ==
    {HTTPException(403, "Unauthorized IP"),
     HTTPException(400, "Missing ElevenLabs-Signature header"),
     HTTPException(400, "Invalid signature format"),
     HTTPException(400, "Invalid timestamp"),
     HTTPException(400, "Timestamp too old"),
     HTTPException(500, "Webhook secret not configured"),
     HTTPException(400, "Invalid signature")}

(***************************************************************************)
(* C1: a POST /webhook request whose client IP is not one of the six       *)
(* allow-listed addresses, or that has no client address, is answered 403  *)
(* "Unauthorized IP" whatever its header, body, the time and the secret    *)
(* are; nothing after the IP check is evaluated (the only lines logged are *)
(* the two of the IP check) and no outbound call is made.                  *)
(***************************************************************************)
C1_UnlistedIpRejected ==
    (WebhookDone /\ ~StepIp) =>
        /\ Rejected(403, "Unauthorized IP")
        /\ log = <<"INFO:Received webhook request",
                   "WARNING:Blocked request from unauthorized IP">>
        /\ outbound = <<>>

\* a request without client address, correctly signed with the configured
\* secret over a body that would trigger the outbound call, is rejected
C1_Witness ==
    /\ WebhookDone
    /\ request.client = None
    /\ StepSecret
    /\ SignedFresh(ConfiguredSecret[1], request.body)
    /\ StepType
    /\ Rejected(403, "Unauthorized IP")

(***************************************************************************)
(* C2 as stated: a request from an allow-listed IP whose header is         *)
(* t=<T>,v0=<HMAC(secret, "T.body")> with the configured non-empty secret, *)
(* T within the last 1800 seconds and the body unmodified is Accepted, for *)
(* every body.                                                             *)
(***************************************************************************)
C2_SignedAlwaysAccepted ==
    (WebhookDone /\ StepIp /\ StepSecret /\ SignedFresh(ConfiguredSecret[1], request.body))
        => Accepted

(***************************************************************************)
(* C2 amended: such a request is never rejected by one of the steps 1-7    *)
(* (IP, header, format, timestamp, age, secret, signature), and it is      *)
(* Accepted exactly when its body is valid UTF-8 that parses as a JSON     *)
(* object with a non-empty type.                                           *)
(***************************************************************************)
C2_SignedPassesSignature ==
    (WebhookDone /\ StepIp /\ StepSecret /\ SignedFresh(ConfiguredSecret[1], request.body))
        => /\ response[1] \notin EarlyRejections
           /\ Accepted <=> (StepJson /\ StepType)

\* the oldest timestamp of the window, a correct signature, a JSON object
\* with a type: accepted
C2_Witness ==
    /\ WebhookDone /\ StepIp /\ StepSecret
    /\ SignedFresh(ConfiguredSecret[1], request.body)
    /\ StepTwoFields /\ HeaderTime = clock - 1800
    /\ StepJson /\ StepType
    /\ Accepted

(***************************************************************************)
(* C3: a request that passes steps 1-6 and whose header digest was         *)
(* computed over a body differing from the received body in one byte is    *)
(* answered 400 "Invalid signature", for every such change of a byte.      *)
(***************************************************************************)
C3_MutatedBodyMismatch ==
    (WebhookDone /\ StepIp /\ StepSecret
        /\ \E signed \in SignedBodies :
              /\ OneByteApart(signed, request.body)
              /\ \E key \in SignerKeys : SignedFresh(key, signed))
        => Rejected(400, "Invalid signature")

(***************************************************************************)
(* C4: the replay window is exactly 1800 seconds.  A request that passes   *)
(* steps 1-4 with timestamp T is answered 400 "Timestamp too old" if and   *)
(* only if T < now - 1800; otherwise it goes on to the secret step (it is  *)
(* rejected for a missing secret when there is none, and by no earlier     *)
(* step).                                                                  *)
(***************************************************************************)
C4_ReplayWindow ==
    (WebhookDone /\ StepIp /\ StepHeader) =>
        \A T \in Timestamps(clock) :
            (StepTwoFields /\ Fields[1] = "t=" \o FormatInt(T)) =>
                /\ Rejected(400, "Timestamp too old") <=> T < clock - 1800
                /\ T >= clock - 1800 =>
                      /\ ~StepSecret => Rejected(500, "Webhook secret not configured")
                      /\ StepSecret => response[1] \notin
                            (EarlyRejections \ {HTTPException(400, "Invalid signature")})

\* T = now - 1800 exactly: not stale, the request reaches the signature step
\* and is accepted
C4_Witness ==
    /\ WebhookDone /\ StepIp /\ StepHeader /\ StepTwoFields
    /\ Fields[1] = "t=" \o FormatInt(clock - 1800)
    /\ "INFO:Expected digest" \in Lines
    /\ Accepted

(***************************************************************************)
(* C5: every Accepted request (signature verified, body a JSON value with  *)
(* a non-empty type) is answered HTTP 200 {"status": "received"}, for      *)
(* every event type and every value of the nested data field.              *)
(***************************************************************************)
C5_AcceptedAnswered200 == Accepted => Answered200

(***************************************************************************)
(* C6: a request that passes steps 1-3 and whose first header field is not *)
(* of the form t=<digits> is answered 400 "Invalid timestamp"; only the    *)
(* literal prefix t= followed by decimal digits goes on to the replay      *)
(* window check.                                                           *)
(***************************************************************************)
C6_NonTDigitsRejected ==
    (WebhookDone /\ StepIp /\ StepHeader) =>
        ((StepTwoFields /\ ~StepTimestamp) => Rejected(400, "Invalid timestamp"))

(***************************************************************************)
(* C7: once the signature is verified, a body that parses as JSON without  *)
(* a non-empty type field (whatever JSON value it is) is answered 400      *)
(* "Missing event type", and a body that does not parse as JSON is         *)
(* answered 400 "Invalid JSON".                                            *)
(***************************************************************************)
C7_MissingTypeRejected ==
    (WebhookDone /\ "INFO:Signature validation passed" \in Lines) =>
        /\ (JsonLoads(request.body).ok /\ ~StepType) => Rejected(400, "Missing event type")
        /\ ~JsonLoads(request.body).ok => Rejected(400, "Invalid JSON")

(***************************************************************************)
(* C8: when the outbound register-call request is made, the response is    *)
(* HTTP 200 {"status": "received"} whether the call returns a status or    *)
(* raises, and the call is made once (no retry).                           *)
(***************************************************************************)
C8_OutboundFailureSwallowed ==
    (Done /\ outbound # <<>>) => (Answered200 /\ Len(outbound) = 1)

\* the outbound call raised, the request is answered 200
C8_Witness ==
    /\ WebhookDone
    /\ Len(outbound) = 1
    /\ "ERROR:Register-call error" \in Lines
    /\ Answered200

(***************************************************************************)
(* C9: the rejection of a request is that of the lowest-numbered of the    *)
(* steps 1-9 that fails (IP, header present, two fields, t=<digits>,       *)
(* fresh, secret configured, digest equal, JSON parses, type non-empty).   *)
(***************************************************************************)
LowestFailingStep ==
    IF ~StepIp THEN 1
    ELSE IF ~StepHeader THEN 2
    ELSE IF ~StepTwoFields THEN 3
    ELSE IF ~StepTimestamp THEN 4
    ELSE IF ~StepFresh THEN 5
    ELSE IF ~StepSecret THEN 6
    ELSE IF ~StepDigest THEN 7
    ELSE IF ~StepJson THEN 8
    ELSE IF ~StepType THEN 9
    ELSE 0

StepRejection ==
    <<HTTPException(403, "Unauthorized IP"),
      HTTPException(400, "Missing ElevenLabs-Signature header"),
      HTTPException(400, "Invalid signature format"),
      HTTPException(400, "Invalid timestamp"),
      HTTPException(400, "Timestamp too old"),
      HTTPException(500, "Webhook secret not configured"),
      HTTPException(400, "Invalid signature"),
      HTTPException(400, "Invalid JSON"),
      HTTPException(400, "Missing event type")>>

C9_LowestFailingStepDecides ==
    (WebhookDone /\ LowestFailingStep # 0) =>
        response = Some(StepRejection[LowestFailingStep])

(***************************************************************************)
(* C10: a request makes the outbound register-call request at most once,   *)
(* and only a POST /webhook request that was Accepted and answered 200,    *)
(* whose type is call_initiation_failure and whose data is non-empty; no   *)
(* rejected request, no other event type and no /health or /sms request    *)
(* makes one.                                                              *)
(***************************************************************************)
C10_OutboundOnlyForFailureEvent ==
    /\ Len(outbound) <= 1
    /\ outbound # <<>> =>
          /\ Accepted
          /\ Answered200
          /\ StepJson
          /\ PyKind(request.body) = "dict"
          /\ DictGet(request.body, "type", PyNone) = "\"call_initiation_failure\""
          /\ PyTruthy(DictGet(request.body, "data", "{}"))

\* the end-to-end request of the specification: one outbound call with the
\* agent id of the event
C10_Witness ==
    /\ WebhookDone
    /\ request.body = "{\"type\":\"call_initiation_failure\",\"data\":{\"agent_id\":\"a1\"}}"
    /\ Len(outbound) = 1
    /\ outbound[1].agent_id = "\"a1\""
    /\ outbound[1].url = RegisterCallUrl

====
